---- MODULE Spec2Model ----
(***************************************************************************)
(* Particle lifecycle of the bevy "particles" sample (src/particles/src/   *)
(* main.rs): the spawn system spawn_particles, the expiration system       *)
(* update_particles, and the deferred command buffers the Update schedule  *)
(* applies once both systems have run.  Time is the monotonic clock read   *)
(* by Instant::now(), in milliseconds since program start.                 *)
(***************************************************************************)
EXTENDS Integers, FiniteSets, Sequences, TLC

\* ---- program constants (main.rs:7-9) ----
SPAWN_COUNT == 30
PARTICLE_EXPIRE_TIME_SECS == 10
PARTICLE_RESPAWN_TIME_MS == 100

\* Duration::from_secs(PARTICLE_EXPIRE_TIME_SECS), in milliseconds (main.rs:172)
MillisPerSec == 1000
ParticleLifetime == PARTICLE_EXPIRE_TIME_SECS * MillisPerSec

\* Configuration.spawn_delta = Duration::from_millis(PARTICLE_RESPAWN_TIME_MS) (main.rs:73)
spawn_delta == PARTICLE_RESPAWN_TIME_MS

\* ---- bounds of the model ----
MaxFrames == 3        \* number of runs of the Update schedule explored
MaxTime == 10200      \* the clock is explored up to this many milliseconds
MaxJitter == 1        \* the clock advances by 0 or MaxJitter ms inside one call of spawn_particles
MaxPasses == 3        \* number of times the clock advances between system runs

\* Amounts by which the clock may advance between two system runs: a
\* millisecond, half a spawn interval less the time a call of spawn_particles
\* may take, just over half an interval, and a stall of a millisecond less
\* than a particle lifetime.
Steps == {1, PARTICLE_RESPAWN_TIME_MS \div 2 - MaxJitter,
          PARTICLE_RESPAWN_TIME_MS \div 2 + 1, ParticleLifetime - 1}

\* The clock reads of one admitted call of spawn_particles are numbered
\* 0 (the deadline check, line 158), 1..SPAWN_COUNT (one per particle, line
\* 172) and SPAWN_COUNT+1 (the new deadline, line 195).  TickPoints are the
\* reads just before which the clock is allowed to advance.
TickPoints == {1, SPAWN_COUNT \div 2 + 1, SPAWN_COUNT + 1}
Jitter == {0, MaxJitter}

\* The systems of the Update schedule this model covers (main.rs:20).
Systems == {"spawn_particles", "update_particles"}

\* The systems of the Startup schedule (main.rs:19, 21).
StartupSystems == {"setup", "setup_fps_counter"}

\* The entities setup spawns (main.rs:89-149) and the entities
\* setup_fps_counter spawns (main.rs:230-286), by what they are.
SetupKinds == {"ground", "light", "camera"}
FpsKinds == {"fps_root", "fps_text"}

VARIABLES
    clock,       \* value Instant::now() returns at this moment
    deadline,    \* next_spawn_deadline: Local<ExpireTime> of spawn_particles
    store,       \* the world's particle entities (ParticleMarker + ExpireTime)
    spawnQ,      \* spawn commands queued by spawn_particles, not yet applied
    despawnQ,    \* entity ids with a despawn command queued by update_particles
    ran,         \* systems that have run in the current run of Update
    frame,       \* index of the current run of the Update schedule, from 1
    nextId,      \* next fresh entity id
    passes,      \* number of times the clock has advanced between system runs
    \* the Startup schedule and the entities that are not particles
    started,     \* systems of the Startup schedule that have run
    booted,      \* the Startup schedule is over and its commands are applied
    startQ,      \* kinds of the entities whose spawn the Startup systems queued
    others,      \* kinds of the non-particle entities in the world
    otherIds,    \* entity ids reserved for the non-particle entities
    \* the FPS overlay systems of the Update schedule (main.rs:22-25)
    fpsRan,      \* FPS systems that have run in the current run of Update
    fpsVis,      \* Visibility of the FpsRoot node, "absent" before it exists
    fpsText,     \* sections[1] of the FpsText node: value and colour, NoText before it exists
    \* one body under the internal integrator (specification 4.2)
    body,        \* position and velocity of the body
    phys,        \* gravity, dt, ground_height, restitution, horizontal_damping
    adv,         \* number of calls of advance made
    bodyPrev,    \* the body as the last call of advance found it
    \* history variables, read only by the properties
    spawnNow,    \* the clock read of the latest deadline check (line 158), -1 before any
    admitted,    \* the spawn_particles call of this frame admitted a batch
    lastAdmit,   \* check-time of the latest admitted batch, -1 if none
    prevAdmit,   \* check-time of the admitted batch before that, -1 if none
    reapNow,     \* `now` of the latest update_particles call, -1 before any
    reapPrev,    \* `now` of the update_particles call before that, -1 if none
    removedPrev, \* number of particles the latest command application despawned
    addedPrev,   \* number of particles the latest command application inserted
    scenA,       \* number of leading spawn calls made at the times of Scenario A, -1 once off it
    issued       \* entity ids for which update_particles has ever queued a despawn

bootVars == <<started, booted, startQ, others, otherIds>>
fpsVars == <<fpsRan, fpsVis, fpsText>>
physVars == <<body, phys, adv, bodyPrev>>

vars == <<clock, deadline, store, spawnQ, despawnQ, ran, frame, nextId, passes,
          started, booted, startQ, others, otherIds,
          fpsRan, fpsVis, fpsText, body, phys, adv, bodyPrev,
          spawnNow, admitted, lastAdmit, prevAdmit, reapNow, reapPrev,
          removedPrev, addedPrev, scenA, issued>>

hist == <<spawnNow, admitted, lastAdmit, prevAdmit, reapNow, reapPrev,
          removedPrev, addedPrev, scenA, issued>>

\* Times at which Scenario A of the specification calls the spawn step. Time 0
\* is the first instant at which a system of Update can read the clock;
\* ExpireTime::default() has read it before (see ApplyStartup).
ScenarioA == <<0, PARTICLE_RESPAWN_TIME_MS \div 2, PARTICLE_RESPAWN_TIME_MS + 1>>

\* ---- pure parts of the systems ----

\* main.rs:158  `Instant::now() > next_spawn_deadline.0`
DueReversedMutant(now, dl) == now < dl
DueMutant(now, dl) == now >= dl
Due(now, dl) == now > dl

\* main.rs:172  ExpireTime(Instant::now() + Duration::from_secs(PARTICLE_EXPIRE_TIME_SECS))
ExpireAtMutant(t) == t + spawn_delta
ExpireAt(t) == t + ParticleLifetime

\* main.rs:195  *next_spawn_deadline = ExpireTime(Instant::now() + configuration.spawn_delta)
NextDeadlineMutant(t, old) == old + spawn_delta
NextDeadline(t, old) == t + spawn_delta

\* main.rs:206  `now >= expire_time.0`
ExpiredMutant(now, e) == now > e
Expired(now, e) == now >= e

\* The i-th clock read of a call that starts at `now`, when the clock advances
\* by j just before read number pos.
ReadAt(now, pos, j, i) == now + (IF i >= pos THEN j ELSE 0)

\* main.rs:160-193  the SPAWN_COUNT spawn commands of one admitted batch
BatchMutant(now, pos, j, firstId, f) ==
    { [id     |-> firstId + i - 1,
       expire |-> ExpireAt(ReadAt(now, pos, j, i)),
       born   |-> ReadAt(now, pos, j, i),
       admit  |-> now,
       frame  |-> f] : i \in 1..(SPAWN_COUNT - 1) }
BatchReuseMutant(now, pos, j, firstId, f) ==
    { [id     |-> Cardinality(SetupKinds \cup FpsKinds) + i,
       expire |-> ExpireAt(ReadAt(now, pos, j, i)),
       born   |-> ReadAt(now, pos, j, i),
       admit  |-> now,
       frame  |-> f] : i \in 1..SPAWN_COUNT }
Batch(now, pos, j, firstId, f) ==
    { [id     |-> firstId + i - 1,
       expire |-> ExpireAt(ReadAt(now, pos, j, i)),
       born   |-> ReadAt(now, pos, j, i),
       admit  |-> now,
       frame  |-> f] : i \in 1..SPAWN_COUNT }

\* The components an entity is spawned with: a particle, the Particle bundle
\* with RigidBody and Collider (main.rs:41-50, 171-192); the ground
\* (main.rs:89-102), the light (main.rs:129), the camera (main.rs:140), the FPS
\* root node (main.rs:230-254) and the FPS text node (main.rs:256-286).
Components(kind) ==
    CASE kind = "particle" ->
             {"ExpireTime", "ParticleMarker", "Velocity", "PbrBundle", "RigidBody", "Collider"}
      [] kind = "ground"   -> {"PbrBundle", "RigidBody", "Collider"}
      [] kind = "light"    -> {"PointLightBundle"}
      [] kind = "camera"   -> {"Camera3dBundle"}
      [] kind = "fps_root" -> {"FpsRoot", "NodeBundle"}
      [] kind = "fps_text" -> {"FpsText", "TextBundle"}

\* main.rs:201  Query<(Entity, &ExpireTime, &ParticleMarker)> returns the
\* entities that have both components.
QueryComponents == {"ExpireTime", "ParticleMarker"}

\* a query for the Entity alone: every entity is returned
MatchesMutant(c) == {} \subseteq c
Matches(c) == QueryComponents \subseteq c

\* main.rs:201  the particles the query iterates: those of the world that
\* match; commands still queued are not in the world.
QueryMutant(world, queued) == world \cup queued
Query(world, queued) == { p \in world : Matches(Components("particle")) }

\* main.rs:201  the entities of the startup systems the query iterates.
OthersMatched(kinds) == { k \in kinds : Matches(Components(k)) }

\* main.rs:205-209  the despawn commands update_particles queues
ToDespawn(now, world, queued) ==
    { p.id : p \in { q \in Query(world, queued) : Expired(now, q.expire) } }

\* main.rs:205-209  the despawn commands update_particles queues for entities
\* of the startup systems. Such an entity carries no expire time that could
\* hold its despawn back; it is despawned if the query returns it. The model
\* keeps the ids these entities hold, not which entity holds which.
OthersToDespawn(kinds, ids) ==
    { D \in SUBSET ids : Cardinality(D) = Cardinality(OthersMatched(kinds)) }

\* Applying the command buffers of both systems to the world.
ApplyCommandsMutant(world, spawns, despawns) == world \cup spawns
ApplyCommands(world, spawns, despawns) ==
    { p \in world \cup spawns : p.id \notin despawns }

\* main.rs:20  the command buffers are applied when the Update schedule has run
\* all its systems; the tuple (spawn_particles, update_particles) orders nothing.
CanApplyMutant(r) == r # {}
CanApply(r) == r = Systems

\* main.rs:20  a system may start when it has not yet run in this run of Update
CanRun(s, r) == s \notin r

\* The FPS overlay systems of the Update schedule (main.rs:22-25).
FpsSystems == {"fps_text_update_system", "fps_counter_showhide"}

\* main.rs:232-253  NodeBundle { ..Default::default() }: Visibility::Inherited
InitialVisibility == "Inherited"

\* The text " N/A" is written as the value NotAvailable; a measured value is
\* written as its number.
NotAvailable == -1

\* No FpsText node exists.
NoText == [value |-> NotAvailable - 1, color |-> "absent"]

\* main.rs:272-273  the second text section starts as " N/A", white
InitialFpsText == [value |-> NotAvailable, color |-> "white"]

\* main.rs:344-347  Hidden => Visible, _ => Hidden
Toggle(v) == IF v = "Hidden" THEN "Visible" ELSE "Hidden"

\* main.rs:303-333  the text and colour for a smoothed FPS value, NotAvailable when
\* the diagnostic has no measurement
FpsTextFor(value) ==
    IF value = NotAvailable THEN [value |-> NotAvailable, color |-> "white"]
    ELSE [value |-> value,
          color |-> IF value >= 120 THEN "green"
                    ELSE IF value >= 60 THEN "yellow-green"
                    ELSE IF value >= 30 THEN "red-yellow"
                    ELSE "red"]

\* Smoothed FPS values the diagnostics store may hold.
FpsSamples == {NotAvailable, 2 * SPAWN_COUNT}

\* The program of this build spawns rigid bodies for the physics engine and
\* has no body under the internal integrator.
NoBody == [x |-> 0, y |-> 0, z |-> 0, vx |-> 0, vy |-> 0, vz |-> 0]
NoPhys == [gravity |-> 0, dt |-> 0, ground |-> 0, restitution |-> 0, damping |-> 0]

\* ---- initial state ----
\* The state App::new() leaves before the first schedule runs: an empty world.
\* Time is counted in milliseconds from the first instant at which a system
\* of the Update schedule can read the clock; the Startup schedule runs one
\* step of the clock before it. next_spawn_deadline has no value yet.
InitProgram ==
    /\ clock = -1
    /\ deadline = -1
    /\ store = {}
    /\ spawnQ = {}
    /\ despawnQ = {}
    /\ ran = {}
    /\ frame = 1
    /\ nextId = 1
    /\ passes = 0
    /\ started = {}
    /\ booted = FALSE
    /\ startQ = {}
    /\ others = {}
    /\ otherIds = {}
    /\ fpsRan = {}
    /\ fpsVis = "absent"
    /\ fpsText = NoText
    /\ adv = 0
    /\ spawnNow = -1
    /\ admitted = FALSE
    /\ lastAdmit = -1
    /\ prevAdmit = -1
    /\ reapNow = -1
    /\ reapPrev = -1
    /\ removedPrev = 0
    /\ addedPrev = 0
    /\ scenA = 0
    /\ issued = {}

Init ==
    /\ InitProgram
    /\ body = NoBody
    /\ phys = NoPhys
    /\ bodyPrev = NoBody

\* ---- actions ----

\* A system of the Startup schedule queues the spawn of its entities; each
\* commands.spawn reserves the next entity id.
StartupRunMutant(s, kinds) ==
    /\ ~booted
    /\ s \notin started
    /\ started' = started \cup {s}
    /\ startQ' = startQ \cup kinds
    /\ otherIds' = otherIds \cup (nextId .. (nextId + Cardinality(kinds) - 1))
    /\ spawnQ' = spawnQ \cup Batch(clock, 1, 0, nextId + Cardinality(kinds), frame)
    /\ nextId' = nextId + Cardinality(kinds) + SPAWN_COUNT
    /\ UNCHANGED <<clock, deadline, store, despawnQ, ran, frame, passes,
                   booted, others, fpsVars, physVars, hist>>

StartupRun(s, kinds) ==
    /\ ~booted
    /\ s \notin started
    /\ started' = started \cup {s}
    /\ startQ' = startQ \cup kinds
    /\ otherIds' = otherIds \cup (nextId .. (nextId + Cardinality(kinds) - 1))
    /\ nextId' = nextId + Cardinality(kinds)
    /\ UNCHANGED <<clock, deadline, store, spawnQ, despawnQ, ran, frame, passes,
                   booted, others, fpsVars, physVars, hist>>

\* setup (main.rs:57-150): ground, light and camera
Setup == StartupRun("setup", SetupKinds)

\* setup_fps_counter (main.rs:225-288): the FPS root node and its text node
SetupFpsCounter == StartupRun("setup_fps_counter", FpsKinds)

\* End of the Startup schedule: the entities it queued are in the world. The
\* Update schedule is set up for its first run and ExpireTime::default()
\* (main.rs:35-39) sets next_spawn_deadline to the clock it reads. Every read
\* a system makes is a later read of the monotonic clock and returns a later
\* instant, so the clock has moved on when the first system runs.
ApplyStartup ==
    /\ ~booted
    /\ started = StartupSystems
    /\ booted' = TRUE
    /\ deadline' = clock
    /\ clock' = clock + 1
    /\ others' = others \cup startQ
    /\ startQ' = {}
    /\ fpsVis' = (IF "fps_root" \in startQ THEN InitialVisibility ELSE fpsVis)
    /\ fpsText' = (IF "fps_text" \in startQ THEN InitialFpsText ELSE fpsText)
    /\ UNCHANGED <<store, spawnQ, despawnQ, ran, frame, nextId,
                   passes, started, otherIds, fpsRan, physVars, hist>>

\* Wall-clock time passes between two system runs, by one of the amounts S,
\* up to the time tmax.
TimeBody(S, tmax) ==
    /\ booted
    /\ ran # Systems
    /\ \E d \in S :
         /\ clock + d <= tmax
         /\ clock' = clock + d
    /\ passes' = passes + 1
    /\ UNCHANGED <<deadline, store, spawnQ, despawnQ, ran, frame, nextId,
                   bootVars, fpsVars, physVars, hist>>

TimePasses ==
    /\ passes < MaxPasses
    /\ frame <= MaxFrames
    /\ TimeBody(Steps, MaxTime)

\* Scenario A monitor: the k-th call is made at ScenarioA[k].
ScenStep(now) ==
    IF scenA >= 0 /\ scenA < Len(ScenarioA) /\ now = ScenarioA[scenA + 1]
    THEN scenA + 1 ELSE -1

\* spawn_particles (main.rs:152-197); during the call the clock advances by
\* one of the amounts J, up to the time tmax.
SpawnBody(J, tmax) ==
    /\ booted
    /\ CanRun("spawn_particles", ran)
    /\ ran' = ran \cup {"spawn_particles"}
    /\ spawnNow' = clock
    /\ scenA' = ScenStep(clock)
    /\ IF Due(clock, deadline)
       THEN \E pos \in TickPoints, j \in J :
              /\ clock + j <= tmax
              /\ spawnQ' = spawnQ \cup Batch(clock, pos, j, nextId, frame)
              /\ nextId' = nextId + SPAWN_COUNT
              /\ clock' = ReadAt(clock, pos, j, SPAWN_COUNT + 1)
              /\ deadline' = NextDeadline(clock', deadline)
              /\ admitted' = TRUE
              /\ lastAdmit' = clock
              /\ prevAdmit' = lastAdmit
       ELSE /\ UNCHANGED <<spawnQ, nextId, clock, deadline, lastAdmit, prevAdmit>>
            /\ admitted' = FALSE
    /\ UNCHANGED <<store, despawnQ, frame, passes, bootVars, fpsVars, physVars,
                   reapNow, reapPrev, removedPrev, addedPrev, issued>>

SpawnParticles ==
    /\ frame <= MaxFrames
    /\ SpawnBody(Jitter, MaxTime)

\* update_particles (main.rs:199-210)
UpdateBody ==
    /\ booted
    /\ CanRun("update_particles", ran)
    /\ ran' = ran \cup {"update_particles"}
    /\ \E D \in OthersToDespawn(others, otherIds) :
         despawnQ' = despawnQ \cup ToDespawn(clock, store, spawnQ) \cup D
    /\ issued' = issued \cup ToDespawn(clock, store, spawnQ)
    /\ reapNow' = clock
    /\ reapPrev' = reapNow
    /\ UNCHANGED <<clock, deadline, store, spawnQ, frame, nextId, passes, bootVars,
                   fpsVars, physVars, spawnNow, admitted, lastAdmit, prevAdmit, removedPrev,
                   addedPrev, scenA>>

UpdateParticles ==
    /\ frame <= MaxFrames
    /\ UpdateBody

\* A despawn command removes the entity with that id, whatever it is.  Which
\* non-particle entity holds which reserved id depends on the order of the
\* Startup systems; the model keeps the ids and the kinds, not the pairing.
OthersAfter(kinds, ids, despawns) ==
    { S \in SUBSET kinds :
        Cardinality(S) = Cardinality(kinds) - Cardinality(ids \cap despawns) }

\* End of one run of the Update schedule: the queued commands reach the world;
\* nf is the index of the next run.
ApplyBody(nf) ==
    /\ CanApply(ran)
    /\ store' = ApplyCommands(store, spawnQ, despawnQ)
    /\ others' \in OthersAfter(others, otherIds, despawnQ)
    /\ otherIds' = otherIds \ despawnQ
    /\ spawnQ' = {}
    /\ despawnQ' = {}
    /\ ran' = {}
    /\ frame' = nf
    /\ admitted' = FALSE
    /\ removedPrev' = Cardinality({ p \in store \cup spawnQ : p.id \in despawnQ })
    /\ addedPrev' = Cardinality(spawnQ)
    /\ UNCHANGED <<clock, deadline, nextId, passes, started, booted, startQ,
                   fpsVis, fpsText, physVars,
                   spawnNow, lastAdmit, prevAdmit, reapNow, reapPrev, scenA, issued>>

ApplyDeferred ==
    /\ ApplyBody(frame + 1)
    /\ UNCHANGED fpsRan

Next ==
    \/ Setup
    \/ SetupFpsCounter
    \/ ApplyStartup
    \/ TimePasses
    \/ SpawnParticles
    \/ UpdateParticles
    \/ ApplyDeferred

Spec == Init /\ [][Next]_vars

TypeOK ==
    /\ clock \in -1..MaxTime
    /\ deadline \in -1..(MaxTime + spawn_delta)
    /\ ran \subseteq Systems
    /\ frame \in 1..(MaxFrames + 1)
    /\ \A p \in store \cup spawnQ : p.id \in 1..(nextId - 1)
    /\ others \subseteq SetupKinds \cup FpsKinds
    /\ otherIds \subseteq 1..(nextId - 1)

\* ---- the whole Update schedule: the particle systems and the FPS overlay ----

WorldFrames == 2      \* number of runs of the Update schedule explored
WorldPasses == 2      \* number of times the clock advances
WorldSteps == {1, ParticleLifetime}

\* fps_text_update_system (main.rs:290-335): writes value and colour of the
\* second section of every FpsText node from the smoothed FPS diagnostic.
FpsTextUpdate ==
    /\ booted
    /\ frame <= WorldFrames
    /\ "fps_text_update_system" \notin fpsRan
    /\ fpsRan' = fpsRan \cup {"fps_text_update_system"}
    /\ \E value \in FpsSamples :
         fpsText' = (IF "fps_text" \in others THEN FpsTextFor(value) ELSE fpsText)
    /\ UNCHANGED <<clock, deadline, store, spawnQ, despawnQ, ran, frame, nextId,
                   passes, bootVars, fpsVis, physVars, hist>>

\* fps_counter_showhide (main.rs:338-349): F12 toggles the visibility of the
\* FpsRoot node; q.single_mut() needs that node to exist.
FpsCounterShowhide ==
    /\ booted
    /\ frame <= WorldFrames
    /\ "fps_counter_showhide" \notin fpsRan
    /\ fpsRan' = fpsRan \cup {"fps_counter_showhide"}
    /\ \E just_pressed \in BOOLEAN :
         /\ just_pressed => "fps_root" \in others
         /\ fpsVis' = (IF just_pressed THEN Toggle(fpsVis) ELSE fpsVis)
    /\ UNCHANGED <<clock, deadline, store, spawnQ, despawnQ, ran, frame, nextId,
                   passes, bootVars, fpsText, physVars, hist>>

WorldTimePasses ==
    /\ passes < WorldPasses
    /\ frame <= WorldFrames
    /\ TimeBody(WorldSteps, MaxTime)

WorldSpawn ==
    /\ frame <= WorldFrames
    /\ SpawnBody({0}, MaxTime)

WorldUpdate ==
    /\ frame <= WorldFrames
    /\ UpdateBody

\* End of one run of Update: all four systems have run.
WorldApply ==
    /\ fpsRan = FpsSystems
    /\ ApplyBody(frame + 1)
    /\ fpsRan' = {}

WorldNext ==
    \/ Setup
    \/ SetupFpsCounter
    \/ ApplyStartup
    \/ WorldTimePasses
    \/ WorldSpawn
    \/ WorldUpdate
    \/ FpsTextUpdate
    \/ FpsCounterShowhide
    \/ WorldApply

WorldSpec == Init /\ [][WorldNext]_vars

\* ---- the internal integrator (specification 4.2, internal strategy) ----

MaxAdvance == 2       \* number of calls of advance explored

\* Reals are fixed-point numbers: the integer n stands for n / Scale.
Scale == 1000
Mul(a, b) == IF a * b >= 0 THEN (a * b) \div Scale ELSE -((-(a * b)) \div Scale)

\* Bodies and configurations the integrator is applied to.
Heights == {0, Scale, 3 * Scale}
VerticalSpeeds == {-5 * Scale, -Scale, 0, 2 * Scale}
HorizontalSpeeds == {0, Scale}
Gravities == {0, 9800}
Durations == {0, 50, Scale}
Restitutions == {400}
Dampings == {900}
Bodies ==
    { [x |-> 0, y |-> y, z |-> 0, vx |-> vx, vy |-> vy, vz |-> 0] :
      y \in Heights, vx \in HorizontalSpeeds, vy \in VerticalSpeeds }
Configurations ==
    { [gravity |-> g, dt |-> dt, ground |-> 0, restitution |-> r, damping |-> d] :
      g \in Gravities, dt \in Durations, r \in Restitutions, d \in Dampings }

\* Steps 1 and 2: the velocity after gravity and the predicted height.
VelocityAfterGravity(b, c) == b.vy - Mul(c.gravity, c.dt)
next_y(b, c) == b.y + VelocityAfterGravity(b, c)

\* explicit Euler: the height is predicted from the velocity before gravity
advanceMutant(b, c) ==
    IF b.y + b.vy < c.ground
    THEN [x |-> b.x + b.vx, y |-> c.ground, z |-> b.z + b.vz,
          vx |-> Mul(b.vx, c.damping), vy |-> -Mul(b.vy, c.restitution),
          vz |-> Mul(b.vz, c.damping)]
    ELSE [x |-> b.x + b.vx, y |-> b.y + b.vy, z |-> b.z + b.vz,
          vx |-> b.vx, vy |-> VelocityAfterGravity(b, c), vz |-> b.vz]

\* Steps 1 to 4 for one particle.
advance(b, c) ==
    IF next_y(b, c) < c.ground
    THEN [x |-> b.x + b.vx, y |-> c.ground, z |-> b.z + b.vz,
          vx |-> Mul(b.vx, c.damping),
          vy |-> -Mul(VelocityAfterGravity(b, c), c.restitution),
          vz |-> Mul(b.vz, c.damping)]
    ELSE [x |-> b.x + b.vx, y |-> next_y(b, c), z |-> b.z + b.vz,
          vx |-> b.vx, vy |-> VelocityAfterGravity(b, c), vz |-> b.vz]

AdvanceInit ==
    /\ InitProgram
    /\ body \in Bodies
    /\ phys \in Configurations
    /\ bodyPrev = body

Advance ==
    /\ adv < MaxAdvance
    /\ body' = advance(body, phys)
    /\ bodyPrev' = body
    /\ adv' = adv + 1
    /\ UNCHANGED <<clock, deadline, store, spawnQ, despawnQ, ran, frame, nextId,
                   passes, bootVars, fpsVars, phys, hist>>

AdvanceNext == Advance

AdvanceSpec == AdvanceInit /\ [][AdvanceNext]_vars

\* ---- a full store: a steady cadence for one lifetime, then any schedule ----

PopFrames == 2        \* number of runs of Update explored after the warm-up

\* The smallest distance in milliseconds between two admitted batches: the
\* test of main.rs:158 is strict.
PopStep == spawn_delta + 1

\* The warm-up runs Update once per tick of a steady cadence until the first
\* batch is about to expire.
WarmFrames == ParticleLifetime \div spawn_delta
PopCadences == {PopStep, PopStep + 1}
PopLastFrame == WarmFrames + PopFrames

\* After the warm-up the clock advances by the smallest distance between two
\* batches or by a stall of a millisecond less than a particle lifetime.
PopSteps == {PopStep, ParticleLifetime - 1}
PopMaxTime == PopLastFrame * (PopStep + 1) + PopFrames * ParticleLifetime

\* The cadence of the warm-up: chosen in its first run of Update, kept after.
WarmSteps == IF frame = 1 THEN PopCadences ELSE {clock \div (frame - 1)}

\* During the warm-up the clock advances once per run of Update, before the
\* systems run. After it the clock advances between any two system runs, as
\* often as there were runs of Update.
PopTimePasses ==
    /\ frame <= PopLastFrame
    /\ passes < frame
    /\ IF frame <= WarmFrames
       THEN ran = {} /\ TimeBody(WarmSteps, PopMaxTime)
       ELSE TimeBody(PopSteps, PopMaxTime)

PopSpawn ==
    /\ frame <= PopLastFrame
    /\ frame <= WarmFrames => passes = frame
    /\ SpawnBody(IF frame <= WarmFrames THEN {0} ELSE Jitter, PopMaxTime)

PopUpdate ==
    /\ frame <= PopLastFrame
    /\ frame <= WarmFrames => passes = frame
    /\ UpdateBody

PopApply ==
    /\ ApplyBody(frame + 1)
    /\ UNCHANGED fpsRan

PopNext ==
    \/ Setup
    \/ SetupFpsCounter
    \/ ApplyStartup
    \/ PopTimePasses
    \/ PopSpawn
    \/ PopUpdate
    \/ PopApply

PopSpec == Init /\ [][PopNext]_vars

\* ---- the Update schedule run for ever ----

LiveFrames == 2       \* runs of Update from this one on are counted as run LiveFrames
LiveMaxTime == 20000  \* the clock is explored up to this many milliseconds

LiveStep == ParticleLifetime \div 2
LiveTimes == { t \in 0..LiveMaxTime : t % LiveStep = 0 }

LiveTimePasses == TimeBody({LiveStep}, LiveMaxTime)

LiveSpawn == SpawnBody({0}, LiveMaxTime)

LiveUpdate == UpdateBody

LiveApply ==
    /\ ApplyBody(IF frame < LiveFrames THEN frame + 1 ELSE frame)
    /\ UNCHANGED fpsRan

LiveNext ==
    \/ Setup
    \/ SetupFpsCounter
    \/ ApplyStartup
    \/ LiveTimePasses
    \/ LiveSpawn
    \/ LiveUpdate
    \/ LiveApply

\* App::run (main.rs:26) runs the Startup schedule once and then the Update
\* schedule again and again, and every run of Update runs each of its systems
\* and applies their commands: weak fairness on these steps. The monotonic
\* clock keeps advancing, whatever the systems do in between: strong fairness
\* on the passing of time, which no step of a system can hold up for ever.
LiveSpec ==
    /\ Init
    /\ [][LiveNext]_vars
    /\ WF_vars(Setup)
    /\ WF_vars(SetupFpsCounter)
    /\ WF_vars(ApplyStartup)
    /\ WF_vars(LiveSpawn)
    /\ WF_vars(LiveUpdate)
    /\ WF_vars(LiveApply)
    /\ SF_vars(LiveTimePasses)

\* ---- properties ----

BothRan == ran = Systems
SpawnStep == "spawn_particles" \notin ran /\ "spawn_particles" \in ran'
UpdateStep == "update_particles" \notin ran /\ "update_particles" \in ran'
ApplyStep == ran = Systems /\ ran' = {}
Ids(S) == { p.id : p \in S }

\* C1: a call of spawn_particles at time now changes nothing when
\* now <= next_spawn_deadline; otherwise it issues exactly SPAWN_COUNT spawn
\* commands for fresh entities, and exactly those particles (SPAWN_COUNT if a
\* batch was admitted, none otherwise) enter the store when the commands are applied.
C1_SpawnContract ==
    [][ /\ SpawnStep =>
             IF clock <= deadline
             THEN /\ spawnQ' = spawnQ /\ deadline' = deadline /\ store' = store
                  /\ nextId' = nextId /\ clock' = clock /\ despawnQ' = despawnQ
             ELSE /\ spawnQ \subseteq spawnQ'
                  /\ Cardinality(spawnQ' \ spawnQ) = SPAWN_COUNT
                  /\ Cardinality(Ids(spawnQ' \ spawnQ)) = SPAWN_COUNT
                  /\ Ids(spawnQ' \ spawnQ) \cap Ids(store \cup spawnQ) = {}
        /\ ApplyStep =>
             Cardinality(store' \ store) = (IF admitted THEN SPAWN_COUNT ELSE 0)
      ]_vars

C1_Witness ==
    /\ "spawn_particles" \in ran
    /\ admitted
    /\ Cardinality(spawnQ) = SPAWN_COUNT
    /\ spawnNow > 0

\* C2: when the removals of update_particles at time now take effect, of the
\* particles present at the call exactly those with expire_time > now remain:
\* expire_time <= now (the boundary included) is removed, expire_time > now is kept.
C2_ReapContract ==
    [][ ApplyStep =>
          /\ \A p \in store : (p \in store') <=> (p.expire > reapNow)
          /\ store' \subseteq store \cup spawnQ
      ]_vars

C2_Witness ==
    /\ BothRan
    /\ \E p \in store : p.id \in despawnQ /\ p.expire = reapNow

\* C3: the store's size after a tick is its size before, plus SPAWN_COUNT if
\* a batch was admitted in the tick, minus the number of particles with
\* expire_time <= now removed in the tick.
C3_Conservation ==
    [][ ApplyStep =>
          Cardinality(store') =
              Cardinality(store)
              + (IF admitted THEN SPAWN_COUNT ELSE 0)
              - Cardinality({ p \in store : p.expire <= reapNow })
      ]_vars

C3_Witness ==
    /\ BothRan
    /\ admitted
    /\ despawnQ # {}

\* C4 as stated: whenever update_particles has run in a tick, spawn_particles
\* has already run in that tick and its insertions are in the store.
C4_Orig ==
    "update_particles" \in ran =>
        ("spawn_particles" \in ran /\ spawnQ \subseteq store)

\* C4 amended: in every tick spawn_particles and update_particles each run
\* exactly once, in either order; neither changes the store while it runs; the
\* queued insertions and removals reach the store together, only after both
\* have run, and that ends the tick.
C4_Amended ==
    [][ /\ (store' # store) => ApplyStep
        /\ (ran' # ran) =>
             \/ /\ \E s \in Systems : s \notin ran /\ ran' = ran \cup {s}
                /\ frame' = frame
             \/ /\ ApplyStep
                /\ frame' = frame + 1
        /\ (frame' # frame) => ApplyStep
      ]_vars

C4_Witness ==
    /\ ran = {"update_particles"}
    /\ store # {}
    /\ despawnQ # {}

\* C5 as stated: next_spawn_deadline never decreases, and an admitted batch
\* sets it to now + spawn_interval for the very now compared with the deadline.
C5_Orig ==
    [][ /\ deadline' >= deadline
        /\ (deadline' # deadline) => deadline' = clock + spawn_delta
      ]_vars

\* C5 amended: next_spawn_deadline never decreases; it changes only in an
\* admitting call (now > deadline), which sets it to t + spawn_interval for
\* the clock read t taken after the batch was built, t >= now, so it is at
\* least now + spawn_interval and never in the past of the tick.
C5_Amended ==
    [][ /\ deadline' >= deadline
        /\ (deadline' # deadline) =>
             /\ SpawnStep
             /\ clock > deadline
             /\ clock' >= clock
             /\ deadline' = clock' + spawn_delta
             /\ deadline' >= clock + spawn_delta
      ]_vars

C5_Witness ==
    /\ admitted
    /\ deadline > spawnNow + spawn_delta

\* C6: no catch-up spawning: at most one batch is admitted per tick, and two
\* consecutive admitted batches are admitted more than spawn_interval apart,
\* also after a stall of many intervals.
C6_NoCatchUp ==
    [][ /\ (booted /\ nextId' # nextId) =>
             /\ SpawnStep
             /\ spawnQ = {}
             /\ nextId' = nextId + SPAWN_COUNT
             /\ (lastAdmit >= 0 => clock > lastAdmit + spawn_delta)
        /\ Cardinality(spawnQ') <= SPAWN_COUNT
      ]_vars

C6_Witness ==
    /\ admitted
    /\ prevAdmit >= 0
    /\ lastAdmit - prevAdmit >= ParticleLifetime
    /\ Cardinality(spawnQ) = SPAWN_COUNT

\* C7 as stated: every particle has expire_time = now + particle_lifetime for
\* the now that admitted its batch, so batch-mates share one expire_time, and
\* no step changes a particle's expire_time.
C7_Orig ==
    [][ /\ \A p \in store' : p.expire = p.admit + ParticleLifetime
        /\ \A p, q \in store' : p.frame = q.frame => p.expire = q.expire
        /\ \A p \in store, q \in store' : p.id = q.id => q.expire = p.expire
      ]_vars

\* C7 amended: every particle has expire_time = t + particle_lifetime for the
\* clock read t taken when that particle was built; t is not before the now
\* that admitted the batch and not after the read that set the new deadline,
\* so batch-mates have non-decreasing, not necessarily equal, expire_times in
\* creation order; no step changes a particle's expire_time.
C7_Amended ==
    [][ /\ \A p \in store' \cup spawnQ' :
             /\ p.expire = p.born + ParticleLifetime
             /\ p.born >= p.admit
        /\ \A p \in spawnQ' : p.born + spawn_delta <= deadline'
        /\ \A p, q \in spawnQ' : p.id <= q.id => p.expire <= q.expire
        /\ \A q \in store' : q \in store \/ q \in spawnQ
      ]_vars

C7_Witness ==
    \E p, q \in store : p.frame = q.frame /\ p.expire # q.expire

\* C8: a particle spawned in a tick is never removed in that tick: every
\* particle with a removal issued was inserted in a strictly earlier tick,
\* and its expire_time is strictly later than the time it was spawned.
C8_NoSameTickReap ==
    /\ \A i \in despawnQ : \E p \in store : p.id = i /\ p.frame < frame
    /\ \A p \in store \cup spawnQ : p.expire > p.born

C8_Witness ==
    /\ despawnQ # {}
    /\ spawnQ # {}

\* C9 as stated (Scenario A): from the initial deadline, calls at 0, 50 and
\* 101 ms spawn SPAWN_COUNT particles (deadline 100), nothing, and SPAWN_COUNT
\* more (deadline 201), so the store then holds 2 * SPAWN_COUNT particles.
C9_Orig ==
    /\ (scenA = 1 /\ frame = 1 /\ "spawn_particles" \in ran) =>
          (Cardinality(spawnQ) = SPAWN_COUNT /\ deadline = 100)
    /\ (scenA = 2 /\ frame = 2 /\ "spawn_particles" \in ran) =>
          (spawnQ = {} /\ deadline = 100)
    /\ (scenA = 3 /\ frame = 3 /\ "spawn_particles" \in ran) =>
          (Cardinality(spawnQ) = SPAWN_COUNT /\ deadline = 201)
    /\ (scenA = 3 /\ frame = 4 /\ ran = {} /\ reapNow <= ScenarioA[3]) =>
          Cardinality(store) = 2 * SPAWN_COUNT

\* C9 amended (Scenario A): the call at 0 ms spawns SPAWN_COUNT particles and
\* sets the deadline to 100 ms after its last clock read; the call at 50 ms
\* spawns nothing; the call at 101 ms spawns SPAWN_COUNT more (deadline 100 ms
\* after its last read) when 101 ms is later than the first deadline, and the
\* store then holds 2 * SPAWN_COUNT particles; when the first call took 1 ms
\* or longer the call at 101 ms spawns nothing and the store holds SPAWN_COUNT.
C9_Amended ==
    [][ /\ (SpawnStep /\ frame = 1 /\ scenA' = 1) =>
              /\ admitted'
              /\ Cardinality(spawnQ') = SPAWN_COUNT
              /\ deadline' = clock' + spawn_delta
              /\ clock' - ScenarioA[1] \in Jitter
        /\ (SpawnStep /\ frame = 2 /\ scenA' = 2) =>
              /\ ~admitted'
              /\ spawnQ' = {}
              /\ deadline' = deadline
        /\ (SpawnStep /\ frame = 3 /\ scenA' = 3) =>
              IF ScenarioA[3] > deadline
              THEN /\ admitted'
                   /\ Cardinality(spawnQ') = SPAWN_COUNT
                   /\ deadline' = clock' + spawn_delta
                   /\ clock' - ScenarioA[3] \in Jitter
              ELSE /\ ~admitted'
                   /\ spawnQ' = {}
                   /\ deadline' = deadline
        /\ (ApplyStep /\ frame = 3 /\ scenA = 3 /\ reapNow <= ScenarioA[3]) =>
              Cardinality(store') = (IF admitted THEN 2 ELSE 1) * SPAWN_COUNT
      ]_vars

\* The three calls of Scenario A have been made, the third admitted a batch
\* and took time: the store holds 2 * SPAWN_COUNT particles and the deadline
\* is later than 201 ms.
C9_Witness ==
    /\ scenA = 3
    /\ frame = 4
    /\ ran = {}
    /\ reapNow <= ScenarioA[3]
    /\ Cardinality(store) = 2 * SPAWN_COUNT
    /\ deadline > ScenarioA[3] + spawn_delta

\* C10: reaping is idempotent: when update_particles runs a second time at
\* the same now as the run before it, and no spawned particle entered the
\* store in between, the second run issues no removal and the store after it
\* equals the store after the first.
C10_ReapIdempotent ==
    [][ (ApplyStep /\ reapPrev = reapNow /\ addedPrev = 0) =>
          /\ despawnQ = {}
          /\ spawnQ = {} => store' = store
      ]_vars

C10_Witness ==
    /\ "update_particles" \in ran
    /\ reapPrev = reapNow
    /\ addedPrev = 0
    /\ removedPrev > 0
    /\ despawnQ = {}

\* Entity ids whose despawn has been issued and applied.
Removed == issued \ despawnQ

\* C12: a particle goes Spawned (queued) -> Live (in the store) -> Expired
\* (removed) and nothing else: a particle enters the store only from the spawn
\* queue, every queued particle enters it, a particle leaves it only when the
\* tick's commands are applied and the reap step saw now >= expire_time, and a
\* removed particle's identity never appears in the store or the queue again.
C12_Lifecycle ==
    [][ /\ \A q \in store' : q \in store \/ q \in spawnQ
        /\ ApplyStep => \A q \in spawnQ : q \in store'
        /\ \A p \in store : p \notin store' => (ApplyStep /\ reapNow >= p.expire)
        /\ (issued' \ despawnQ') \cap Ids(store' \cup spawnQ') = {}
      ]_vars

C12_Witness ==
    /\ ran = {}
    /\ removedPrev > 0
    /\ store # {}
    /\ Removed # {}

\* C17: removal is issued at most once per particle: when update_particles
\* runs no despawn is pending, and it queues a despawn only for particles that
\* are in the store and for which no despawn was ever issued before.
C17_SingleRemoval ==
    [][ UpdateStep =>
          /\ despawnQ = {}
          /\ despawnQ' \cap issued = {}
          /\ despawnQ' \subseteq Ids(store)
      ]_vars

C17_Witness ==
    /\ "update_particles" \in ran
    /\ issued # {}
    /\ despawnQ = {}
    /\ store # {}
FpsStep == fpsRan # fpsRan' /\ fpsRan' # {}
StartupStep == started' # started \/ booted' # booted

\* C13: particles are created only by spawn_particles and destroyed only by
\* update_particles. The store changes only when the commands of these two
\* systems are applied: what it gains was queued by spawn_particles, what it
\* loses was queued for despawn by update_particles. Only spawn_particles adds
\* to the spawn queue and only update_particles adds to the despawn queue;
\* the startup systems and the FPS systems leave store and queues alone.
C13_OnlySpawnAndReap ==
    [][ /\ store' # store =>
              /\ ApplyStep
              /\ store' \ store \subseteq spawnQ
              /\ Ids(store \ store') \subseteq despawnQ
        /\ (spawnQ' # spawnQ /\ spawnQ' # {}) => SpawnStep
        /\ (despawnQ' # despawnQ /\ despawnQ' # {}) => UpdateStep
        /\ (StartupStep \/ FpsStep) => UNCHANGED <<store, spawnQ, despawnQ>> ]_vars

\* Particles were added and removed while the FPS systems ran and changed the
\* overlay.
C13_Witness ==
    /\ removedPrev > 0
    /\ store # {}
    /\ fpsVis = "Hidden"
    /\ fpsText = FpsTextFor(2 * SPAWN_COUNT)

\* C16: update_particles queues the despawn of particles only: its query
\* returns none of the entities of the startup systems, whatever the clock
\* reads, and from the end of startup on the ground, the light, the camera,
\* the FPS root and the FPS text exist.
C16_OthersSurvive ==
    /\ despawnQ \cap otherIds = {}
    /\ booted => others = SetupKinds \cup FpsKinds
    /\ booted => Cardinality(otherIds) = Cardinality(SetupKinds \cup FpsKinds)

\* A reap has removed particles and the five other entities are still there.
C16_Witness ==
    /\ booted
    /\ removedPrev > 0
    /\ others = SetupKinds \cup FpsKinds
    /\ Ids(store) \cap otherIds = {}
    /\ store # {}

\* The last call of advance found a ground contact.
Contact == adv > 0 /\ next_y(bodyPrev, phys) < phys.ground

\* Scenario B: position.y = 1.0, velocity.y = -5.0, ground_height = 0,
\* restitution = 0.4 before the call.
ScenarioB ==
    /\ Contact
    /\ bodyPrev.y = Scale
    /\ bodyPrev.vy = -5 * Scale
    /\ phys.ground = 0
    /\ phys.restitution = 400

\* C14 as stated: after a ground contact position.y is ground_height and
\* velocity.y is the negated velocity.y scaled by restitution; in scenario B
\* the result is position.y = 0 and velocity.y = 2.0.
C14_Orig ==
    /\ Contact =>
          /\ body.y = phys.ground
          /\ body.vy = -Mul(VelocityAfterGravity(bodyPrev, phys), phys.restitution)
    /\ ScenarioB => (body.y = 0 /\ body.vy = 2 * Scale)

\* C14 amended: the velocity that is negated and scaled is the one after the
\* gravity step, so in scenario B velocity.y is 0.4 * (5.0 + gravity * dt),
\* which is 2.0 only when gravity * dt is 0.
C14_Amended ==
    /\ Contact =>
          /\ body.y = phys.ground
          /\ body.vy = -Mul(VelocityAfterGravity(bodyPrev, phys), phys.restitution)
    /\ ScenarioB =>
          /\ body.y = 0
          /\ body.vy = 2 * Scale + Mul(phys.restitution, Mul(phys.gravity, phys.dt))
          /\ (body.vy = 2 * Scale) <=> (Mul(phys.gravity, phys.dt) = 0)

\* Scenario B with gravity acting over the tick: the body rests on the ground
\* and leaves it faster than 2.0.
C14_Witness ==
    /\ ScenarioB
    /\ adv = 1
    /\ Mul(phys.gravity, phys.dt) > 0
    /\ body.y = 0
    /\ body.vy > 2 * Scale

\* The number of spawn intervals in one lifetime, rounded up.
BatchesPerLifetime == (ParticleLifetime + spawn_delta - 1) \div spawn_delta

\* C15 as stated: at the end of every tick the store holds at most
\* batch_size * ceil(particle_lifetime / spawn_interval) = 3000 particles.
C15_Orig ==
    ran = {} => Cardinality(store) <= SPAWN_COUNT * BatchesPerLifetime

\* C15 amended: at the end of every tick the store holds at most
\* batch_size * (ceil(particle_lifetime / spawn_interval) + 1) = 3030
\* particles: the batches of one lifetime that the reap step left, and the
\* batch of the tick itself.
C15_Amended ==
    ran = {} => Cardinality(store) <= SPAWN_COUNT * (BatchesPerLifetime + 1)

\* The end of a tick in which update_particles read the clock before
\* spawn_particles did: 101 batches are in the store.
C15_Witness ==
    /\ ran = {}
    /\ reapNow < spawnNow
    /\ removedPrev = 0
    /\ addedPrev = SPAWN_COUNT
    /\ Cardinality(store) = SPAWN_COUNT * (BatchesPerLifetime + 1)

\* Entity ids a particle can get while the clock is below LiveMaxTime.
LiveIds ==
    (Cardinality(SetupKinds \cup FpsKinds) + 1) ..
    (Cardinality(SetupKinds \cup FpsKinds) + SPAWN_COUNT * Cardinality(LiveTimes))

\* C11: every particle in the store whose expire_time the clock can reach is
\* later absent from the store, and a particle is absent once the commands of
\* a tick are applied whose update_particles read a clock >= its expire_time.
C11_EventuallyRemoved ==
    /\ \A i \in LiveIds :
          (\E p \in store : p.id = i /\ p.expire <= LiveMaxTime)
              ~> (i \notin Ids(store))
    /\ [][ ApplyStep =>
              \A p \in store : reapNow >= p.expire => p \notin store' ]_vars

\* A particle whose expire_time the clock reached has been removed.
C11_Witness ==
    /\ ran = {}
    /\ removedPrev = SPAWN_COUNT
    /\ \E i \in issued : i \notin Ids(store) /\ i \notin despawnQ
    /\ clock >= ParticleLifetime + LiveStep

\* C18: as long as the clock advances a further batch is admitted; the
\* deadline is never more than spawn_delta ahead of the clock, and a run of
\* spawn_particles that reads a clock beyond the deadline admits a batch.
C18_SpawningNeverStops ==
    /\ \A t \in LiveTimes :
          (booted /\ clock = t /\ t + LiveStep <= LiveMaxTime) ~> (lastAdmit > t)
    /\ [](deadline <= clock + spawn_delta)
    /\ [][ (SpawnStep /\ clock > deadline) =>
              /\ admitted'
              /\ Cardinality(spawnQ') = Cardinality(spawnQ) + SPAWN_COUNT
              /\ deadline' = clock' + spawn_delta ]_vars

\* A second batch has been admitted, one interval or more after the first.
C18_Witness ==
    /\ admitted
    /\ prevAdmit > 0
    /\ lastAdmit > prevAdmit + spawn_delta
    /\ deadline > clock

====
